---- MODULE Spec2Model ----
(***************************************************************************)
(* A model of compute_cc.py: the ambient-noise cross-correlation pipeline  *)
(* (main, process_raw, process_cc, correlate, whiten, nearest_step).        *)
(*                                                                         *)
(* Arrays are TLA+ sequences (1-based); the operators that take a Python   *)
(* index take it 0-based, as the source writes it.  Times are whole        *)
(* seconds.  Every function of the source has its own group of variables   *)
(* and its own specification; the groups a specification does not use stay *)
(* at their idle values.                                                   *)
(***************************************************************************)
EXTENDS Integers, Sequences, FiniteSets, TLC

VARIABLES
    \* correlate(): its position, the spectrum length Nt, the requested
    \* maxlag in quarters of a sample, and one returned row (each sample
    \* named by the index of the inverse transform it was taken from)
    c_pc, Nt, maxlag_q, corr,
    \* nearest_step(): position, the pair given to the first call, the step,
    \* the pair returned by the last call and the pair returned by the call
    \* before it
    n_pc, n_in, n_step, n_out, n_prev,
    \* whiten(): position, data.ndim, the raw spectrum scipy.fftpack.fft
    \* returned (a sequence of rows, one row when ndim is 1), the band
    \* [freqmin, freqmax] in units of the bin spacing 1/(Nfft*delta), the
    \* to_whiten argument, the returned spectrum and the exception raised
    w_pc, w_ndim, w_raw, w_fmin, w_fmax, w_flag, w_out, w_err,
    \* main(), from the trimmed span on: position, the locals t1 and t2,
    \* the arguments step, cc_len and to_whiten, the window arrays t_start
    \* and t_end, the two lists of frames (a frame is named by its start
    \* time), the loop index ii and the list to_remove, the spectra handed
    \* to correlate, the rows of corr (each named by the pair of frames it
    \* was computed from), t_cc, and the exception raised
    pc, t1, t2, step, cc_len, to_whiten, t_start, t_end,
    source_slice, receiver_slice, ii, to_remove,
    source_white, receiver_white, m_corr, t_cc, err,
    \* process_raw(), the zero-trace filter: position, the stream (a trace
    \* is the sequence of its samples) and the exception raised
    z_pc, z_st, z_in, z_err,
    \* process_raw(), the gap repair: position, the stream (a trace is the
    \* numbers of its first and last sample), the flag only_too_long, the
    \* number of loop passes made and the gap the last pass merged
    g_pc, st, only_too_long, g_passes, g_merged,
    \* correlate() with method='deconv', lines 425-428, on one row: position,
    \* the magnitudes of the bins of fft1 and of fft2, the divisor of every
    \* bin and the quotient of every bin
    d_pc, d_fft1, d_fft2, d_den, d_corr

corVars == <<c_pc, Nt, maxlag_q, corr>>
nsVars  == <<n_pc, n_in, n_step, n_out, n_prev>>
whVars  == <<w_pc, w_ndim, w_raw, w_fmin, w_fmax, w_flag, w_out, w_err>>
mainVars == <<pc, t1, t2, step, cc_len, to_whiten, t_start, t_end,
              source_slice, receiver_slice, ii, to_remove,
              source_white, receiver_white, m_corr, t_cc, err>>
zeroVars == <<z_pc, z_st, z_in, z_err>>
gapVars == <<g_pc, st, only_too_long, g_passes, g_merged>>
decVars == <<d_pc, d_fft1, d_fft2, d_den, d_corr>>
vars    == <<corVars, nsVars, whVars, mainVars, zeroVars, gapVars, decVars>>

(***************************************************************************)
(* Bounds of the model.                                                    *)
(***************************************************************************)
MaxNt == 9
MaxLagQ == 22
MaxDay == 1
TimesPerDay == 24
MaxLen == 6
MaxRows == 2
NPhase == 4
MaxStart == 1
MaxSpan == 5
MaxStep == 2
MaxCcLen == 3
MaxFrames == 3
MaxTraces == 2
MaxSamples == 2
MaxGapTraces == 4
MaxBins == 23
MaxMag == 2

(***************************************************************************)
(* Python and numpy helpers.                                               *)
(***************************************************************************)
Abs(x) == IF x < 0 THEN -x ELSE x
Min(a, b) == IF a < b THEN a ELSE b
Max(a, b) == IF a > b THEN a ELSE b

\* A Python slice bound i on an array of length n, as Python clips it.
PyIndex(i, n) == IF i < 0 THEN Max(i + n, 0) ELSE Min(i, n)

\* s[lo:hi] and s[lo:], lo and hi 0-based Python indices (negative allowed).
PySlice(s, lo, hi) == SubSeq(s, PyIndex(lo, Len(s)) + 1, PyIndex(hi, Len(s)))
PySliceFrom(s, lo) == SubSeq(s, PyIndex(lo, Len(s)) + 1, Len(s))

\* np.arange(lo, hi) of integers.
Arange(lo, hi) == [i \in 1..Max(hi - lo, 0) |-> lo + i - 1]

\* range(0, stop, step) for step > 0.
PyRange(stop, stp) == [i \in 1..((stop + stp - 1) \div stp) |-> (i - 1) * stp]

\* The 0-based indices i, in order, with keep[i + 1] true: np.where(...)[0].
RECURSIVE WhereFrom(_, _)
WhereFrom(keep, i) ==
    IF i > Len(keep) THEN <<>>
    ELSE (IF keep[i] THEN <<i - 1>> ELSE <<>>) \o WhereFrom(keep, i + 1)
Where(keep) == WhereFrom(keep, 1)

\* a[ind] for an index array ind (0-based).
Take(a, ind) == [j \in 1..Len(ind) |-> a[ind[j] + 1]]

\* np.argmin(d): the first index (0-based) of a least element.
ArgMin(d) == CHOOSE i \in 0..(Len(d) - 1) :
    /\ \A j \in 0..(Len(d) - 1) : d[i + 1] <= d[j + 1]
    /\ \A j \in 0..(i - 1) : d[j + 1] > d[i + 1]

\* np.round of q/4: to the nearest integer, a half to the even neighbour.
NpRound(q) ==
    LET f == q \div 4
        r == q % 4
    IN  IF r < 2 THEN f
        ELSE IF r > 2 THEN f + 1
        ELSE IF f % 2 = 0 THEN f ELSE f + 1

\* floor(q/4)
Floor(q) == q \div 4

\* scipy's next_fast_len: the least length >= n with no prime factor but 2, 3, 5.
RECURSIVE StripFactor(_, _)
StripFactor(n, p) == IF n % p = 0 THEN StripFactor(n \div p, p) ELSE n
IsFastLen(n) == StripFactor(StripFactor(StripFactor(n, 2), 3), 5) = 1
next_fast_len(n) == CHOOSE m \in n..(2 * n) : IsFastLen(m) /\ \A k \in n..(m - 1) : ~IsFastLen(k)

(***************************************************************************)
(* correlate(fft1, fft2, maxlag): the lag bookkeeping of one row.          *)
(***************************************************************************)
\* tcorr = np.arange(-Nt//2 + 1, Nt//2)
TCorr(nt) == Arange(((-nt) \div 2) + 1, nt \div 2)

\* A faulty variant of LagInd, kept for comparison: a strict comparison.
LagIndStrict(nt, q) == Where([i \in 1..Len(TCorr(nt)) |-> Abs(TCorr(nt)[i]) < NpRound(q)])

\* maxlag = np.round(maxlag); ind = np.where(np.abs(tcorr) <= maxlag)[0]
LagInd(nt, q) == Where([i \in 1..Len(TCorr(nt)) |-> Abs(TCorr(nt)[i]) <= NpRound(q)])

\* The inverse transform has Nfft samples; sample i is named i here.
\* corr = np.concatenate((corr[-Nt//2 + 1:], corr[:Nt//2 + 1])); corr = corr[ind]
Correlate(nt, q) ==
    LET Nfft == next_fast_len(nt)
        ifft == [i \in 1..Nfft |-> i - 1]
        cat  == PySliceFrom(ifft, ((-nt) \div 2) + 1) \o PySlice(ifft, 0, (nt \div 2) + 1)
    IN  Take(cat, LagInd(nt, q))

CorInit ==
    /\ c_pc = "call"
    /\ Nt \in 1..MaxNt
    /\ maxlag_q \in 0..MaxLagQ
    /\ corr = <<>>

CorIdle == c_pc = "idle" /\ Nt = 0 /\ maxlag_q = 0 /\ corr = <<>>

DoCorrelate ==
    /\ c_pc = "call"
    /\ corr' = Correlate(Nt, maxlag_q)
    /\ c_pc' = "done"
    /\ UNCHANGED <<Nt, maxlag_q, nsVars, whVars, mainVars, zeroVars, gapVars, decVars>>

(***************************************************************************)
(* correlate(fft1, fft2, maxlag, method='deconv'): the division of lines   *)
(* 425-428 on one row of the two spectra.  A bin is held by its magnitude, *)
(* a whole number; np.abs drops the phases before the divisor is built.    *)
(***************************************************************************)
half_win == 20
RegInverse == 100

RECURSIVE SumFromTo(_, _, _)
SumFromTo(x, lo, hi) == IF lo > hi THEN 0 ELSE x[lo] + SumFromTo(x, lo + 1, hi)

\* noise.smooth(x, half_win=20): the moving average of x over the bins at
\* most half_win away.  The value held is the sum over the window, that is
\* the average times 2 * half_win + 1; bins outside the row add nothing.
smooth(x) ==
    [k \in 1..Len(x) |-> SumFromTo(x, Max(1, k - half_win), Min(Len(x), k + half_win))]

\* np.mean(..., axis=1) of a row, times the length of the row
RowSum(x) == SumFromTo(x, 1, Len(x))

\* noise.smooth(np.abs(fft2)) ** 2 + 0.01 * np.mean(noise.smooth(np.abs(first)), axis=1),
\* every bin times 100 * Len * (2 * half_win + 1) ^ 2 to stay in the integers.
Regularised(first, second) ==
    [k \in 1..Len(second) |->
        RegInverse * Len(first) * smooth(second)[k] * smooth(second)[k]
        + (2 * half_win + 1) * RowSum(smooth(first))]

\* line 427-428: the squared term is of fft2, the mean is of fft1
DeconvDenominator(fft1, fft2) == Regularised(fft1, fft2)

\* corr = fft1 * np.conj(fft2); corr /= divisor.  numpy divides without
\* raising: 0/0 is nan and x/0 is inf.
Quotient(num, den) ==
    IF den # 0 THEN [kind |-> "finite", num |-> num, den |-> den]
    ELSE IF num = 0 THEN [kind |-> "nan", num |-> 0, den |-> 0]
    ELSE [kind |-> "inf", num |-> num, den |-> 0]

Deconv(fft1, fft2) ==
    [k \in 1..Len(fft1) |->
        Quotient(fft1[k] * fft2[k], DeconvDenominator(fft1, fft2)[k])]

\* The rows drawn: no bin, one bin or every bin of the row is not zero.
MagRows(n) ==
    {[k \in 1..n |-> 0]}
    \cup {[k \in 1..n |-> IF k = p THEN a ELSE 0] : p \in {1, n}, a \in 1..MaxMag}
    \cup {[k \in 1..n |-> a] : a \in 1..MaxMag}

DecInit ==
    /\ d_pc = "call"
    /\ \E n \in 1..MaxBins : d_fft1 \in MagRows(n) /\ d_fft2 \in MagRows(n)
    /\ d_den = <<>>
    /\ d_corr = <<>>

DecIdle == d_pc = "idle" /\ d_fft1 = <<>> /\ d_fft2 = <<>> /\ d_den = <<>> /\ d_corr = <<>>

DoDeconv ==
    /\ d_pc = "call"
    /\ d_den' = DeconvDenominator(d_fft1, d_fft2)
    /\ d_corr' = Deconv(d_fft1, d_fft2)
    /\ d_pc' = "done"
    /\ UNCHANGED <<d_fft1, d_fft2, corVars, nsVars, whVars, mainVars, zeroVars, gapVars>>

(***************************************************************************)
(* nearest_step(t1, t2, step).  A time is a number of seconds; its day is  *)
(* t \div Day and its midnight Day * (t \div Day).                         *)
(***************************************************************************)
Day == 86400

Midnight(t) == Day * (t \div Day)

\* A faulty variant of StepGrid, kept for comparison: the grid stops before the next midnight.
StepGridShort(stp) == PyRange(Day, stp)

\* range(0, 86400 + step, step)
StepGrid(stp) == PyRange(Day + stp, stp)

\* A faulty variant of NearestTick, kept for comparison: the farthest tick instead of the nearest.
FarthestTick(t, stp) ==
    LET ts   == [i \in 1..Len(StepGrid(stp)) |-> Midnight(t) + StepGrid(stp)[i]]
        diff == [i \in 1..Len(ts) |-> 0 - Abs(ts[i] - t)]
    IN  ts[ArgMin(diff) + 1]

\* t1s = [start1 + s for s in range(...)]; t1s[np.argmin(np.abs(t1s - t1))]
NearestTick(t, stp) ==
    LET ts   == [i \in 1..Len(StepGrid(stp)) |-> Midnight(t) + StepGrid(stp)[i]]
        diff == [i \in 1..Len(ts) |-> Abs(ts[i] - t)]
    IN  ts[ArgMin(diff) + 1]

nearest_step(a, b, stp) ==
    IF a = b THEN <<a, b>>
    ELSE <<NearestTick(a, stp), NearestTick(b, stp)>>

\* The times of day the inputs are drawn from, and the steps: some divide
\* the day, some do not, one is longer than a day.
DayTimes == {(k * Day) \div TimesPerDay : k \in 0..(TimesPerDay - 1)}
Times == {d * Day + s : d \in 0..MaxDay, s \in DayTimes}
Steps == {1800 * 12, 1800 * 16, 1800 * 24, 36000, 50000, 100000}

NsInit ==
    /\ n_pc = 0
    /\ n_in \in Times \X Times
    /\ n_step \in Steps
    /\ n_out = n_in
    /\ n_prev = n_in

NsIdle == n_pc = 0 /\ n_in = <<0, 0>> /\ n_step = 0 /\ n_out = <<0, 0>> /\ n_prev = <<0, 0>>

\* One call of nearest_step on the pair the last call returned.
DoNearestStep ==
    /\ n_step > 0
    /\ n_pc < 2
    /\ n_prev' = n_out
    /\ n_out' = nearest_step(n_out[1], n_out[2], n_step)
    /\ n_pc' = n_pc + 1
    /\ UNCHANGED <<n_in, n_step, corVars, whVars, mainVars, zeroVars, gapVars, decVars>>

(***************************************************************************)
(* whiten(data, delta, freqmin, freqmax, to_whiten).  A spectrum bin is a  *)
(* magnitude and a phase.  The phase counts NPhase-ths of a turn.  The     *)
(* magnitude is <<"raw", a>>, the amplitude a > 0 the transform gave, or   *)
(* <<"w", num, den>>, the taper weight sin^2(pi/2 * num/den): 0/1 is the   *)
(* complex zero and 1/1 a unit phasor.  A row holds bins 0..Nfft-1 at      *)
(* indices 1..Nfft.                                                        *)
(***************************************************************************)
pad == 100

Zero == [m |-> <<"w", 0, 1>>, p |-> 0]
Unit(ph) == [m |-> <<"w", 1, 1>>, p |-> ph]
Raw(ph) == [m |-> <<"raw", 1>>, p |-> ph]

\* conjugate(): the phase negated (the zero keeps phase 0).
Conj(b) == [m |-> b.m, p |-> (NPhase - b.p) % NPhase]

\* np.angle(b); np.angle(0) is 0.
Angle(b) == b.p

RECURSIVE Gcd(_, _)
Gcd(a, b) == IF b = 0 THEN a ELSE Gcd(b, a % b)

\* weight * np.exp(1j * angle), the weight sin^2(pi/2 * num/den).
Phasor(num, den, ph) ==
    IF num = 0 THEN Zero
    ELSE [m |-> <<"w", num \div Gcd(num, den), den \div Gcd(num, den)>>, p |-> ph]

\* np.cos(np.linspace(np.pi / 2., np.pi, n))[j] ** 2 * np.exp(1j * angle)
LeftTaper(j, n, ph) == IF n = 1 THEN Zero ELSE Phasor(j, n - 1, ph)

\* np.cos(np.linspace(0., np.pi / 2., n))[j] ** 2 * np.exp(1j * angle)
RightTaper(j, n, ph) == IF n = 1 THEN Unit(ph) ELSE Phasor(n - 1 - j, n - 1, ph)

Reverse(s) == [i \in 1..Len(s) |-> s[Len(s) + 1 - i]]

\* s[lo:] = t, for len(t) == len(s[lo:])
AssignFrom(s, lo, t) ==
    [i \in 1..Len(s) |-> IF i > PyIndex(lo, Len(s)) THEN t[i - PyIndex(lo, Len(s))] ELSE s[i]]

\* J = np.where((freqVec >= freqmin) & (freqVec <= freqmax))[0], freqVec the
\* first Nfft // 2 bin frequencies 0, 1, 2, ...
JBins(Nfft, fmin, fmax) ==
    Where([i \in 1..(Nfft \div 2) |-> (i - 1 >= fmin) /\ (i - 1 <= fmax)])

Left(Nfft, fmin, fmax) == JBins(Nfft, fmin, fmax)[1]
Right(Nfft, fmin, fmax) == JBins(Nfft, fmin, fmax)[Len(JBins(Nfft, fmin, fmax))]
Low(Nfft, fmin, fmax) ==
    IF Left(Nfft, fmin, fmax) - pad <= 0 THEN 1 ELSE Left(Nfft, fmin, fmax) - pad
High(Nfft, fmin, fmax) ==
    IF 2 * (Right(Nfft, fmin, fmax) + pad) > Nfft THEN Nfft \div 2
    ELSE Right(Nfft, fmin, fmax) + pad

\* The left taper, the pass band, the right taper and the zeroed bins of
\* one row; the five assignments of the source touch disjoint bins.
ShapeRow(row, low, left, right, high) ==
    [i \in 1..Len(row) |->
        IF i - 1 < low THEN Zero
        ELSE IF i - 1 < left THEN LeftTaper(i - 1 - low, left - low, Angle(row[i]))
        ELSE IF i - 1 < right THEN Unit(Angle(row[i]))
        ELSE IF i - 1 < high THEN RightTaper(i - 1 - right, high - right, Angle(row[i]))
        ELSE Zero]

ConjRow(s) == [i \in 1..Len(s) |-> Conj(s[i])]

\* FFTRawSign[-(Nfft // 2) + 1:] = FFTRawSign[1:(Nfft // 2)].conjugate()[::-1]
\* on a 1-D array: [::-1] reverses the bins.
Mirror1D(row) ==
    AssignFrom(row, 1 - (Len(row) \div 2),
               Reverse(ConjRow(PySlice(row, 1, Len(row) \div 2))))

\* FFTRawSign[:,-(Nfft // 2) + 1:] = FFTRawSign[:,1:(Nfft // 2)].conjugate()[::-1]
\* on a 2-D array: [::-1] reverses the first axis, the rows.
Mirror2D(rows) ==
    LET half == [r \in 1..Len(rows) |->
                    ConjRow(PySlice(rows[r], 1, Len(rows[r]) \div 2))]
    IN  [r \in 1..Len(rows) |->
            AssignFrom(rows[r], 1 - (Len(rows[r]) \div 2), Reverse(half)[r])]

\* whiten(): [err, out].  J[0] of an empty J is an IndexError; np.linspace
\* of a negative count (left = 0, low = 1) is a ValueError.
whiten(ndim, rows, fmin, fmax, flag) ==
    LET Nfft == Len(rows[1])
        left == Left(Nfft, fmin, fmax)
        right == Right(Nfft, fmin, fmax)
        low == Low(Nfft, fmin, fmax)
        high == High(Nfft, fmin, fmax)
        shaped == [r \in 1..Len(rows) |-> ShapeRow(rows[r], low, left, right, high)]
    IN  IF JBins(Nfft, fmin, fmax) = <<>> THEN [err |-> "IndexError", out |-> <<>>]
        ELSE IF ~flag THEN [err |-> "none", out |-> rows]
        ELSE IF left - low < 0 THEN [err |-> "ValueError", out |-> <<>>]
        ELSE IF ndim = 1 THEN [err |-> "none", out |-> <<Mirror1D(shaped[1])>>]
        ELSE [err |-> "none", out |-> Mirror2D(shaped)]

\* The spectra scipy.fftpack.fft gives for real data of n samples padded to
\* Nfft = next_fast_len(n): bin 0 and the Nyquist bin are real, the bins in
\* between are free, and bin Nfft - k is the conjugate of bin k.
FreeBins == {Zero} \cup {Raw(ph) : ph \in 0..(NPhase - 1)}
RawRows(Nfft) ==
    {[i \in 1..Nfft |->
        IF i = 1 \/ 2 * (i - 1) = Nfft THEN Raw(0)
        ELSE IF 2 * (i - 1) < Nfft THEN f[i - 1]
        ELSE Conj(f[Nfft - i + 1])] : f \in [1..((Nfft - 1) \div 2) -> FreeBins]}

WhInit ==
    /\ w_pc = "call"
    /\ w_ndim \in {1, 2}
    /\ \E n \in 1..MaxLen, R \in 1..MaxRows :
          /\ w_ndim = 1 => R = 1
          /\ w_raw \in [1..R -> RawRows(next_fast_len(n))]
    /\ w_fmin \in 0..(MaxLen \div 2)
    /\ w_fmax \in w_fmin..(MaxLen \div 2)
    /\ w_flag \in BOOLEAN
    /\ w_out = <<>>
    /\ w_err = "none"

WhIdle ==
    /\ w_pc = "idle" /\ w_ndim = 0 /\ w_raw = <<>> /\ w_fmin = 0 /\ w_fmax = 0
    /\ w_flag = FALSE /\ w_out = <<>> /\ w_err = "none"

DoWhiten ==
    /\ w_pc = "call"
    /\ w_out' = whiten(w_ndim, w_raw, w_fmin, w_fmax, w_flag).out
    /\ w_err' = whiten(w_ndim, w_raw, w_fmin, w_fmax, w_flag).err
    /\ w_pc' = "done"
    /\ UNCHANGED <<w_ndim, w_raw, w_fmin, w_fmax, w_flag, corVars, nsVars, mainVars, zeroVars, gapVars, decVars>>

(***************************************************************************)
(* main(), from the trimmed span [t1, t2] on (the code before it reads,    *)
(* repairs, merges and trims the two streams, or raises).                  *)
(***************************************************************************)
\* np.arange(0, stop, step) for step > 0: empty when stop <= 0.
NpArange(stop, stp) == IF stop <= 0 THEN <<>> ELSE PyRange(stop, stp)

\* t_len = np.arange(0, t2 - t1 - cc_len + step, step)
TLen(a, b, len, stp) == NpArange(b - a - len + stp, stp)

\* A faulty variant of TInd, kept for comparison: every window is kept.
TIndAll(a, b, len, stp) == [i \in 1..Len(TLen(a, b, len, stp)) |-> i - 1]

\* t_ind = np.where(t_end <= t2)[0], t_end = [t1 + t + cc_len for t in t_len]
TInd(a, b, len, stp) ==
    Where([i \in 1..Len(TLen(a, b, len, stp)) |-> a + TLen(a, b, len, stp)[i] + len <= b])

\* t_start = np.array([t1 + t for t in t_len])[t_ind]
TStart(a, b, len, stp) ==
    Take([i \in 1..Len(TLen(a, b, len, stp)) |-> a + TLen(a, b, len, stp)[i]],
         TInd(a, b, len, stp))

\* t_end = np.array([t1 + t + cc_len for t in t_len])[t_ind]
TEnd(a, b, len, stp) ==
    Take([i \in 1..Len(TLen(a, b, len, stp)) |-> a + TLen(a, b, len, stp)[i] + len],
         TInd(a, b, len, stp))

\* What Trace.slide(window_length=cc_len, step=step) can yield for one
\* station: frames in time order, each of cc_len seconds and inside the
\* trace's span [a, b]; none when no window fits.  Which of them it yields
\* depends on the trace's sample instants, so the lists are drawn.
Increasing(s) == \A i \in 1..(Len(s) - 1) : s[i] < s[i + 1]
FrameLists(a, b, len) ==
    {s \in UNION {[1..n -> a..(b - len)] : n \in 0..MaxFrames} : Increasing(s)}

\* list.remove(x): the first element equal to x goes.
RECURSIVE RemoveFirst(_, _)
RemoveFirst(s, x) ==
    IF s = <<>> THEN <<>>
    ELSE IF Head(s) = x THEN Tail(s)
    ELSE <<Head(s)>> \o RemoveFirst(Tail(s), x)

\* for ii in to_remove[::-1]: slice.remove(slice[ii])
RECURSIVE RemoveAll(_, _)
RemoveAll(slice, rem) ==
    IF rem = <<>> THEN slice
    ELSE RemoveAll(RemoveFirst(slice, slice[rem[Len(rem)] + 1]), SubSeq(rem, 1, Len(rem) - 1))

\* The spectrum scipy.fftpack.fft gives for the frame starting at s: a
\* six-bin stand-in whose phases tell the frames apart.
FrameFFT(s) == <<Raw(0), Raw(s % NPhase), Raw(1), Raw(0),
                 Conj(Raw(1)), Conj(Raw(s % NPhase))>>

\* process_cc(stream, freqmin, freqmax, ..., to_whiten): [err, white].  On
\* an empty stream scopy.merge(method=1)[0] is an IndexError.  The band is
\* bins 1..2 of the frames' spectra.
process_cc(stream, flag) ==
    IF stream = <<>> THEN [err |-> "IndexError", out |-> <<>>]
    ELSE whiten(2, [i \in 1..Len(stream) |-> FrameFFT(stream[i])], 1, 2, flag)

\* def process_cc(..., to_whiten=True): the value main's calls leave to the
\* default, since they pass freqmin, freqmax and time_norm only.
ProcessCCToWhiten == TRUE

MainInit ==
    /\ pc = "trimmed"
    /\ t1 \in 0..MaxStart
    /\ t2 \in t1..(t1 + MaxSpan)
    /\ step \in 1..MaxStep
    /\ cc_len \in 1..MaxCcLen
    /\ to_whiten \in BOOLEAN
    /\ t_start = <<>> /\ t_end = <<>>
    /\ source_slice = <<>> /\ receiver_slice = <<>>
    /\ ii = 0 /\ to_remove = <<>>
    /\ source_white = <<>> /\ receiver_white = <<>>
    /\ m_corr = <<>> /\ t_cc = <<>>
    /\ err = "none"

MainIdle ==
    /\ pc = "idle" /\ t1 = 0 /\ t2 = 0 /\ step = 0 /\ cc_len = 0
    /\ to_whiten = FALSE
    /\ t_start = <<>> /\ t_end = <<>>
    /\ source_slice = <<>> /\ receiver_slice = <<>>
    /\ ii = 0 /\ to_remove = <<>>
    /\ source_white = <<>> /\ receiver_white = <<>>
    /\ m_corr = <<>> /\ t_cc = <<>>
    /\ err = "none"

others == <<corVars, nsVars, whVars, zeroVars, gapVars, decVars>>

\* lines 82-89
BuildWindows ==
    /\ pc = "trimmed"
    /\ t_start' = TStart(t1, t2, cc_len, step)
    /\ t_end' = TEnd(t1, t2, cc_len, step)
    /\ pc' = "windows"
    /\ UNCHANGED <<t1, t2, step, cc_len, to_whiten, source_slice, receiver_slice,
                   ii, to_remove, source_white, receiver_white, m_corr, t_cc, err, others>>

\* lines 102-113
Slide ==
    /\ pc = "windows"
    /\ source_slice' \in FrameLists(t1, t2, cc_len)
    /\ receiver_slice' \in FrameLists(t1, t2, cc_len)
    /\ IF source_slice' = <<>> \/ receiver_slice' = <<>>
       THEN pc' = "error" /\ err' = "No traces in Stream"
       ELSE pc' = "scan" /\ err' = err
    /\ UNCHANGED <<t1, t2, step, cc_len, to_whiten, t_start, t_end,
                   ii, to_remove, source_white, receiver_white, m_corr, t_cc, others>>

\* lines 116-121, one pass of the loop: receiver_slice[ii] past the end of
\* receiver_slice is an IndexError.
Scan ==
    /\ pc = "scan"
    /\ ii < Len(source_slice)
    /\ IF ii >= Len(receiver_slice)
       THEN /\ pc' = "error" /\ err' = "IndexError"
            /\ t1' = source_slice[ii + 1]
            /\ UNCHANGED <<t2, ii, to_remove>>
       ELSE /\ t1' = source_slice[ii + 1]
            /\ t2' = receiver_slice[ii + 1]
            /\ to_remove' = IF t1' # t2' THEN Append(to_remove, ii) ELSE to_remove
            /\ ii' = ii + 1
            /\ UNCHANGED <<pc, err>>
    /\ UNCHANGED <<step, cc_len, to_whiten, t_start, t_end, source_slice, receiver_slice,
                   source_white, receiver_white, m_corr, t_cc, others>>

\* lines 122-125, when the loop has ended
Remove ==
    /\ pc = "scan"
    /\ ii = Len(source_slice)
    /\ source_slice' = RemoveAll(source_slice, to_remove)
    /\ receiver_slice' = RemoveAll(receiver_slice, to_remove)
    /\ pc' = "removed"
    /\ UNCHANGED <<t1, t2, step, cc_len, to_whiten, t_start, t_end, ii, to_remove,
                   source_white, receiver_white, m_corr, t_cc, err, others>>

\* lines 128-129: to_whiten is not among the arguments of the two calls
ProcessCC ==
    /\ pc = "removed"
    /\ LET s == process_cc(source_slice, ProcessCCToWhiten)
           r == process_cc(receiver_slice, ProcessCCToWhiten)
       IN  IF s.err # "none"
           THEN /\ pc' = "error" /\ err' = s.err
                /\ UNCHANGED <<source_white, receiver_white>>
           ELSE IF r.err # "none"
           THEN /\ pc' = "error" /\ err' = r.err
                /\ source_white' = s.out
                /\ UNCHANGED receiver_white
           ELSE /\ pc' = "whitened" /\ err' = err
                /\ source_white' = s.out
                /\ receiver_white' = r.out
    /\ UNCHANGED <<t1, t2, step, cc_len, to_whiten, t_start, t_end,
                   source_slice, receiver_slice, ii, to_remove, m_corr, t_cc, others>>

\* fft1 * np.conj(fft2) on arrays of m and n rows: numpy pairs the rows,
\* repeats a single row against the other array's rows, and refuses any
\* other shapes.
RowPairs(a, b) ==
    IF Len(a) = Len(b) THEN [i \in 1..Len(a) |-> <<a[i], b[i]>>]
    ELSE IF Len(a) = 1 THEN [i \in 1..Len(b) |-> <<a[1], b[i]>>]
    ELSE IF Len(b) = 1 THEN [i \in 1..Len(a) |-> <<a[i], b[1]>>]
    ELSE <<>>

\* lines 132-140: correlate raises when the shapes do not fit; main raises
\* when every sample of corr is zero, which is for the data to decide.
CorrelateAndReturn ==
    /\ pc = "whitened"
    /\ \/ /\ RowPairs(source_slice, receiver_slice) = <<>>
          /\ pc' = "error" /\ err' = "ValueError"
          /\ UNCHANGED <<m_corr, t_cc>>
       \/ /\ RowPairs(source_slice, receiver_slice) # <<>>
          /\ m_corr' = RowPairs(source_slice, receiver_slice)
          /\ pc' = "error" /\ err' = "No data cross-correlated"
          /\ UNCHANGED t_cc
       \/ /\ RowPairs(source_slice, receiver_slice) # <<>>
          /\ m_corr' = RowPairs(source_slice, receiver_slice)
          /\ t_cc' = [i \in 1..Len(t_start) |-> <<t_start[i], t_end[i]>>]
          /\ pc' = "done" /\ err' = err
    /\ UNCHANGED <<t1, t2, step, cc_len, to_whiten, t_start, t_end,
                   source_slice, receiver_slice, ii, to_remove,
                   source_white, receiver_white, others>>


(***************************************************************************)
(* process_raw(st, downsamp_freq): the filter of the traces of zeros.      *)
(***************************************************************************)
\* tr.data.max()
RECURSIVE SeqMax(_)
SeqMax(d) == IF Len(d) = 1 THEN d[1] ELSE Max(d[1], SeqMax(Tail(d)))

\* for tr in st: if tr.data.max() == 0: st.remove(tr).  Stream.__iter__
\* walks a copy of the list, so every trace of `todo` is visited.
RECURSIVE ZeroFilter(_, _)
ZeroFilter(stream, todo) ==
    IF todo = <<>> THEN stream
    ELSE IF SeqMax(Head(todo)) = 0
         THEN ZeroFilter(RemoveFirst(stream, Head(todo)), Tail(todo))
         ELSE ZeroFilter(stream, Tail(todo))

Samples == {-1, 0, 1}
TraceData == UNION {[1..n -> Samples] : n \in 1..MaxSamples}

ZeroInit ==
    /\ z_pc = "start"
    /\ z_in \in UNION {[1..n -> TraceData] : n \in 1..MaxTraces}
    /\ z_st = z_in
    /\ z_err = "none"

ZeroIdle == z_pc = "idle" /\ z_in = <<>> /\ z_st = <<>> /\ z_err = "none"

\* lines 238-243
DropZeroTraces ==
    /\ z_pc = "start"
    /\ z_st' = ZeroFilter(z_st, z_st)
    /\ IF z_st' = <<>>
       THEN z_pc' = "error" /\ z_err' = "No traces in Stream"
       ELSE z_pc' = "filtered" /\ z_err' = z_err
    /\ UNCHANGED <<z_in, corVars, nsVars, whVars, mainVars, gapVars, decVars>>

(***************************************************************************)
(* process_raw(st, downsamp_freq): the repair of the gaps.  A trace is     *)
(* [first, last], the numbers of its first and last sample; the stream is  *)
(* in time order and its traces do not overlap.                            *)
(***************************************************************************)
max_gap == 10

\* noise.getGaps(st): one entry <<i, i + 1, n>> for every pair of
\* neighbouring traces (0-based places i, i + 1) with n > 0 samples missing
\* between them, in stream order.
RECURSIVE GapsFrom(_, _)
GapsFrom(stream, i) ==
    IF i >= Len(stream) THEN <<>>
    ELSE (IF stream[i + 1].first - stream[i].last - 1 > 0
          THEN <<<<i - 1, i, stream[i + 1].first - stream[i].last - 1>>>>
          ELSE <<>>) \o GapsFrom(stream, i + 1)
getGaps(stream) == GapsFrom(stream, 1)

\* A faulty variant of ShortGap, kept for comparison: a strict comparison.
ShortGapStrict(gap) == gap[3] < max_gap

\* int(gap[-1]) <= max_gap
ShortGap(gap) == gap[3] <= max_gap

\* st[gap[0]] = st[gap[0]].__add__(st[gap[1]], method=0, fill_value="interpolate")
\* st.remove(st[gap[1]])
MergeGap(stream, gap) ==
    LET sum == [first |-> Min(stream[gap[1] + 1].first, stream[gap[2] + 1].first),
                last  |-> Max(stream[gap[1] + 1].last, stream[gap[2] + 1].last)]
        put == [stream EXCEPT ![gap[1] + 1] = sum]
    IN  RemoveFirst(put, put[gap[2] + 1])

\* The for loop of one pass, from gaps[k] on: [st, too_long, merged], merged
\* the samples of the gap that was merged (0 when none was).
RECURSIVE ForGaps(_, _, _, _)
ForGaps(stream, gaps, k, too_long) ==
    IF k > Len(gaps) THEN [st |-> stream, too_long |-> too_long, merged |-> 0]
    ELSE IF ShortGap(gaps[k])
         THEN [st |-> MergeGap(stream, gaps[k]), too_long |-> too_long, merged |-> gaps[k][3]]
         ELSE ForGaps(stream, gaps, k + 1, too_long + 1)

\* The streams the loop is given: up to MaxGapTraces traces of one or two
\* samples, neighbours touching or 1, 10, 11 or 12 samples apart.
GapSizes == {0, 1, max_gap, max_gap + 1, max_gap + 2}
RECURSIVE Layout(_, _, _)
Layout(lens, gaps, from) ==
    IF lens = <<>> THEN <<>>
    ELSE <<[first |-> from, last |-> from + Head(lens) - 1]>>
         \o (IF Tail(lens) = <<>> THEN <<>>
             ELSE Layout(Tail(lens), Tail(gaps), from + Head(lens) + Head(gaps)))
Streams ==
    UNION {{Layout(lens, gaps, 0) : lens \in [1..n -> {1, 2}],
                                    gaps \in [1..(n - 1) -> GapSizes]}
           : n \in 1..MaxGapTraces}

GapInit ==
    /\ g_pc = "check"
    /\ st \in Streams
    /\ only_too_long = FALSE
    /\ g_passes = 0
    /\ g_merged = 0

GapIdle == g_pc = "idle" /\ st = <<>> /\ only_too_long = FALSE /\ g_passes = 0 /\ g_merged = 0

gapOthers == <<corVars, nsVars, whVars, mainVars, zeroVars, decVars>>

\* line 253: if len(noise.getGaps(st)) > 0
GapCheck ==
    /\ g_pc = "check"
    /\ g_pc' = IF Len(getGaps(st)) > 0 THEN "while" ELSE "exit"
    /\ UNCHANGED <<st, only_too_long, g_passes, g_merged, gapOthers>>

\* lines 256-267: one pass of the while loop
GapPass ==
    /\ g_pc = "while"
    /\ getGaps(st) # <<>> /\ ~only_too_long
    /\ LET r == ForGaps(st, getGaps(st), 1, 0)
       IN  /\ st' = r.st
           /\ only_too_long' = (r.too_long = Len(getGaps(st)))
           /\ g_merged' = r.merged
    /\ g_passes' = g_passes + 1
    /\ UNCHANGED <<g_pc, gapOthers>>

\* line 256: the loop condition fails
GapExit ==
    /\ g_pc = "while"
    /\ ~(getGaps(st) # <<>> /\ ~only_too_long)
    /\ g_pc' = "exit"
    /\ UNCHANGED <<st, only_too_long, g_passes, g_merged, gapOthers>>

\* line 269: st.merge(method=0, fill_value=np.int32(0))
FinalMerge ==
    /\ g_pc = "exit"
    /\ st' = <<[first |-> st[1].first, last |-> st[Len(st)].last]>>
    /\ g_pc' = "merged"
    /\ UNCHANGED <<only_too_long, g_passes, g_merged, gapOthers>>

GapNext == GapCheck \/ GapPass \/ GapExit \/ FinalMerge

(***************************************************************************)
(* Specifications.                                                         *)
(***************************************************************************)
Init == MainInit /\ CorIdle /\ NsIdle /\ WhIdle /\ ZeroIdle /\ GapIdle /\ DecIdle

Next == BuildWindows \/ Slide \/ Scan \/ Remove \/ ProcessCC \/ CorrelateAndReturn

Spec == Init /\ [][Next]_vars

InitCorrelate == CorInit /\ NsIdle /\ WhIdle /\ MainIdle /\ ZeroIdle /\ GapIdle /\ DecIdle

SpecCorrelate ==
    InitCorrelate /\ [][DoCorrelate]_vars

InitNearest == NsInit /\ CorIdle /\ WhIdle /\ MainIdle /\ ZeroIdle /\ GapIdle /\ DecIdle

SpecNearest ==
    InitNearest /\ [][DoNearestStep]_vars

InitWhiten == WhInit /\ CorIdle /\ NsIdle /\ MainIdle /\ ZeroIdle /\ GapIdle /\ DecIdle

SpecWhiten ==
    InitWhiten /\ [][DoWhiten]_vars

InitZero == ZeroInit /\ CorIdle /\ NsIdle /\ WhIdle /\ MainIdle /\ GapIdle /\ DecIdle

SpecZero ==
    InitZero /\ [][DropZeroTraces]_vars

InitDeconv == DecInit /\ CorIdle /\ NsIdle /\ WhIdle /\ MainIdle /\ ZeroIdle /\ GapIdle

SpecDeconv ==
    InitDeconv /\ [][DoDeconv]_vars

InitGaps == GapInit /\ CorIdle /\ NsIdle /\ WhIdle /\ MainIdle /\ ZeroIdle /\ DecIdle

\* The loop is sequential code: a step that can be taken is taken.
SpecGaps ==
    /\ InitGaps
    /\ [][GapNext]_vars
    /\ WF_vars(GapNext)

(***************************************************************************)
(* The claims.                                                             *)
(***************************************************************************)

ConjugateSymmetric(row) ==
    \A k \in 1..(Len(row) - 1) :
        2 * k < Len(row) => row[k + 1] = Conj(row[Len(row) - k + 1])

\* C2: every row whiten() returns with whitening enabled, for 1-D and for
\* 2-D input, is conjugate symmetric.
C2_ConjugateSymmetry ==
    w_pc = "done" /\ w_flag /\ w_err = "none" =>
        \A r \in 1..Len(w_out) : ConjugateSymmetric(w_out[r])

\* C3, as stated: for every pair of times and every positive step,
\* nearest_step applied to the pair it returned returns that pair.
C3_Idempotent == n_pc = 2 => n_out = n_prev

\* C3, amended: for every pair of times and every positive step that
\* divides 86400, nearest_step applied to the pair it returned returns that
\* pair.
C3_IdempotentDividing == n_pc = 2 /\ Day % n_step = 0 => n_out = n_prev

\* C3, witness: a second call on a pair the first call had to move, the step
\* dividing the day.
C3_Witness ==
    /\ n_pc = 2
    /\ Day % n_step = 0
    /\ n_in[1] # n_in[2]
    /\ n_prev[1] # n_in[1] /\ n_prev[2] # n_in[2]

\* r is a whole multiple of stp seconds after t's midnight, no tick of the
\* grid is nearer to t, and r is at most stp/2 from t.
Aligned(t, r, stp) ==
    /\ r >= Midnight(t)
    /\ (r - Midnight(t)) % stp = 0
    /\ \A k \in 0..((Day \div stp) + 1) : Abs(r - t) <= Abs(Midnight(t) + k * stp - t)
    /\ 2 * Abs(r - t) <= stp

\* C4, as stated: for every pair of times, equal ones included, and every
\* positive step, each time nearest_step returns is the tick of its input's
\* grid nearest to the input.
C4_Aligned ==
    n_pc = 1 => Aligned(n_in[1], n_out[1], n_step) /\ Aligned(n_in[2], n_out[2], n_step)

\* C4, amended: for every pair of different times and every positive step,
\* each time nearest_step returns is the tick of its input's grid nearest to
\* the input; a pair of equal times is returned as it is.
C4_AlignedDistinct ==
    n_pc = 1 =>
        IF n_in[1] # n_in[2]
        THEN Aligned(n_in[1], n_out[1], n_step) /\ Aligned(n_in[2], n_out[2], n_step)
        ELSE n_out = n_in

\* C4, witness: a call that moved both of two different times.
C4_Witness ==
    /\ n_pc = 1
    /\ n_in[1] # n_in[2]
    /\ n_out[1] # n_in[1] /\ n_out[2] # n_in[2]

\* C5: with t2 - t1 >= cc_len, main builds floor((t2 - t1 - cc_len)/step) + 1
\* windows, the k-th (t1 + k*step, t1 + k*step + cc_len), ending by t2; with
\* t2 - t1 < cc_len it builds none and its next step raises 'No traces in
\* Stream'.
C5_Windows ==
    /\ [](pc = "windows" =>
            IF t2 - t1 >= cc_len
            THEN /\ Len(t_start) = ((t2 - t1 - cc_len) \div step) + 1
                 /\ Len(t_end) = Len(t_start)
                 /\ \A k \in 1..Len(t_start) :
                        /\ t_start[k] = t1 + (k - 1) * step
                        /\ t_end[k] = t_start[k] + cc_len
                        /\ t_end[k] <= t2
            ELSE t_start = <<>> /\ t_end = <<>>)
    /\ [][pc = "windows" /\ t2 - t1 < cc_len =>
            pc' = "error" /\ err' = "No traces in Stream"]_vars

\* C5, witness: main has built two windows or more, a further step of the
\* grid starting inside the span and ending outside it.
C5_Witness ==
    /\ pc = "windows"
    /\ Len(t_start) >= 2
    /\ (t2 - t1 - cc_len) % step # 0

\* C6: the removal step never fails on an index, and it leaves the two
\* lists with as many frames, equal in start time place by place.
C6_RemovalSafe ==
    /\ [][pc = "scan" => pc' # "error"]_vars
    /\ [](pc = "removed" =>
            /\ Len(source_slice) = Len(receiver_slice)
            /\ \A i \in 1..Len(source_slice) : source_slice[i] = receiver_slice[i])

\* C7: when the removal step has emptied both lists, main fails with 'No
\* traces in Stream'.
C7_EmptyAfterRemoval ==
    /\ pc = "error"
    /\ to_remove # <<>>
    /\ source_slice = <<>> /\ receiver_slice = <<>>
    => err = "No traces in Stream"

\* C8: the spectra main hands to correlate are whitened when main's
\* to_whiten is true and the frames' raw spectra when it is false.
C8_FlagControlsWhitening ==
    pc \in {"whitened", "done"} =>
        /\ source_white = process_cc(source_slice, to_whiten).out
        /\ receiver_white = process_cc(receiver_slice, to_whiten).out

\* C9: the gap-repair loop ends; when it has ended, no gap is left or every
\* gap left is longer than 10 samples; and a pass that does not set
\* only_too_long merges one gap of at most 10 samples, leaving one trace and
\* one gap fewer.
C9_GapLoop ==
    /\ <>(g_pc = "exit")
    /\ [](g_pc = "exit" =>
            \A k \in 1..Len(getGaps(st)) : getGaps(st)[k][3] > max_gap)
    /\ [][g_passes' = g_passes + 1 /\ ~only_too_long' =>
            /\ Len(st') = Len(st) - 1
            /\ Len(getGaps(st')) = Len(getGaps(st)) - 1
            /\ g_merged' \in 1..max_gap]_vars

\* C9, witness: the loop has ended after merging a gap, with gaps left that
\* are all too long.
C9_Witness ==
    /\ g_pc = "exit"
    /\ only_too_long
    /\ g_passes >= 2
    /\ getGaps(st) # <<>>

NonZero(d) == \E i \in 1..Len(d) : d[i] # 0

\* C10: the filter keeps exactly the traces with a sample that is not zero,
\* and a stream of nothing but zeros raises 'No traces in Stream'.
C10_DropsOnlyZeroTraces ==
    z_pc # "start" =>
        /\ z_st = SelectSeq(z_in, NonZero)
        /\ (\A i \in 1..Len(z_in) : ~NonZero(z_in[i])) => z_err = "No traces in Stream"

\* C11: in what main returns, t_cc has one (start, end) row for every row of
\* the correlation matrix, and row i of t_cc is the start and the end of the
\* pair of frames row i of the matrix was computed from, whatever the
\* removal of the mismatched frames did.
C11_TccParallel ==
    pc = "done" =>
        /\ Len(t_cc) = Len(m_corr)
        /\ \A i \in 1..Len(m_corr) :
              /\ t_cc[i][1] = m_corr[i][1] /\ t_cc[i][1] = m_corr[i][2]
              /\ t_cc[i][2] = m_corr[i][1] + cc_len

\* C12: for method='deconv' the divisor of every bin is
\* smooth(|fft2|)^2 + 0.01 * rowmean(smooth(|fft2|)): it is what fft2 alone
\* gives, and it is above zero in a row where fft2 has a bin that is not zero.
C12_DenominatorOfSecond ==
    d_pc = "done" =>
        /\ d_den = Regularised(d_fft2, d_fft2)
        /\ (\E k \in 1..Len(d_fft2) : d_fft2[k] # 0) =>
               \A k \in 1..Len(d_den) : d_den[k] > 0
====
